---- MODULE Spec2Model ----
(***************************************************************************)
(* The freelance dashboard of src/main.py over the tables of               *)
(* src/app/models.py: the session, the five tables and the HTTP handlers   *)
(* login, logout, dashboard, time_logs, add_time_log and reports.          *)
(*                                                                         *)
(* A table is a sequence of rows in primary-key order; the autoincrement   *)
(* id of a row is its position.  A nullable integer column holds 0 for     *)
(* NULL.  Float columns (hours, amount) are integers here, so sums are     *)
(* exact and round(total_hours, 1) changes nothing.  The columns no        *)
(* handler reads (email, deadline, budget) are left out.                   *)
(*                                                                         *)
(* Spec starts from the database startup_event seeds and takes every       *)
(* handler; SpecViews starts from any tables within the bounds under any   *)
(* signed-in user and takes the three read handlers.                       *)
(***************************************************************************)
EXTENDS Integers, Sequences, FiniteSets, TLC

VARIABLES users, clients, projects, invoices, timeEntries, session, resp

vars == <<users, clients, projects, invoices, timeEntries, session, resp>>

tables == <<users, clients, projects, invoices>>

----------------------------------------------------------------------------
(* Bounds of the model *)

\* random seed entries written by startup_event (the program writes 20)
SeedEntryCount == 0
\* largest hours value of a seed entry or of a posted form
MaxHours == 1
\* time entries POST /time-logs may append in one behaviour
MaxPosts == 1
\* rows of the drawn projects, invoices and time_entries tables
NumProjects == 2
NumInvoices == 2
MaxEntries == 2
\* largest client id a drawn row refers to
MaxClientRef == 2

----------------------------------------------------------------------------
(* Columns and values *)

\* NULL in users.client_id / projects.client_id
NoClient == 0
\* request.session without "user_id"
NoUser == 0

Roles == {"admin", "freelancer", "client"}
ProjectStatuses == {"active", "completed", "on-hold"}
InvoiceStatuses == {"draft", "sent", "paid"}

Date(y, m, d) == [y |-> y, m |-> m, d |-> d]

\* date.today()
Today == Date(2026, 11, 2)
\* a day of the month before
LastMonth == Date(2026, 10, 15)

\* a >= b on dates
DateGeq(a, b) ==
    \/ a.y > b.y
    \/ a.y = b.y /\ a.m > b.m
    \/ a.y = b.y /\ a.m = b.m /\ a.d >= b.d

\* date.today().replace(day=1)
StartOfMonth(d) == [d EXCEPT !.d = 1]

\* issued_date.strftime("%Y-%m")
MonthKey(d) == <<d.y, d.m>>

ParseError == [y |-> 0, m |-> 0, d |-> 0]

\* datetime.strptime(date, "%Y-%m-%d").date() on the strings a form sends;
\* ParseError stands for the ValueError it raises
ParseDate(s) ==
    CASE s = "2026-11-02" -> Date(2026, 11, 2)
      [] s = "2026-10-15" -> Date(2026, 10, 15)
      [] OTHER -> ParseError

\* bcrypt.hashpw without its salt
get_password_hash(password) == <<"bcrypt", password>>

verify_password(plain_password, hashed_password) ==
    get_password_hash(plain_password) = hashed_password

----------------------------------------------------------------------------
(* Rows *)

User(id, username, password, role, client_id) ==
    [id |-> id, username |-> username,
     hashed_password |-> get_password_hash(password),
     role |-> role, client_id |-> client_id]

Client(id, name) == [id |-> id, name |-> name]

Project(id, name, status, client_id) ==
    [id |-> id, name |-> name, status |-> status, client_id |-> client_id]

TimeEntry(id, project_id, date, hours, description) ==
    [id |-> id, project_id |-> project_id, date |-> date, hours |-> hours,
     description |-> description]

Invoice(id, project_id, amount, issued_date, status) ==
    [id |-> id, project_id |-> project_id, amount |-> amount,
     issued_date |-> issued_date, status |-> status]

----------------------------------------------------------------------------
(* Sequences and dicts *)

Range(s) == {s[i] : i \in DOMAIN s}

RECURSIVE SumSeq(_)
SumSeq(s) == IF s = <<>> THEN 0 ELSE Head(s) + SumSeq(Tail(s))

RECURSIVE SumSet(_, _)
\* sum of f[x] over the finite set S
SumSet(S, f) ==
    IF S = {} THEN 0
    ELSE LET x == CHOOSE x \in S : TRUE IN f[x] + SumSet(S \ {x}, f)

Hours(rows) == [i \in DOMAIN rows |-> rows[i].hours]
Amounts(rows) == [i \in DOMAIN rows |-> rows[i].amount]

EmptyDict == <<>>

\* d[k] = d.get(k, 0) + v
DictAdd(d, k, v) ==
    IF k \in DOMAIN d THEN [d EXCEPT ![k] = @ + v] ELSE d @@ (k :> v)

----------------------------------------------------------------------------
(* Queries *)

\* get_current_user's None, and db.query(...).first() on no row
Anonymous ==
    [id |-> NoUser, username |-> "", hashed_password |-> <<>>,
     role |-> "", client_id |-> NoClient]

\* .first() of a query over users
First(hits) == IF hits = <<>> THEN Anonymous ELSE Head(hits)

get_current_user ==
    IF session = NoUser THEN Anonymous
    ELSE First(SelectSeq(users, LAMBDA u : u.id = session))

ProjectIds == {projects[i].id : i \in DOMAIN projects}

\* row.project of a row whose project_id is in ProjectIds
ProjectOf(row) ==
    projects[CHOOSE i \in DOMAIN projects : projects[i].id = row.project_id]

\* .join(models.Project): the rows whose project_id names a project
JoinProject(rows) == SelectSeq(rows, LAMBDA r : r.project_id \in ProjectIds)

\* models.Project.client_id == value: SQLAlchemy renders "client_id IS NULL"
\* for value None and "client_id = value" otherwise, which no NULL satisfies
ClientIdEq(column, value) ==
    IF value = NoClient THEN column = NoClient
    ELSE column # NoClient /\ column = value

\* if user.role == "client": query.filter(Project.client_id == user.client_id)
\* on a query over projects
ScopeProjects(rows, user) ==
    IF user.role = "client"
    THEN SelectSeq(rows, LAMBDA p : ClientIdEq(p.client_id, user.client_id))
    ELSE rows

ScopeByProject_Unfiltered(rows, user) == rows

\* the same filter on a query over time entries or invoices joined to projects
ScopeByProject(rows, user) ==
    IF user.role = "client"
    THEN SelectSeq(rows,
           LAMBDA r : ClientIdEq(ProjectOf(r).client_id, user.client_id))
    ELSE rows

RECURSIVE InsertByDateDesc(_, _)
InsertByDateDesc(sorted, row) ==
    IF sorted = <<>> THEN <<row>>
    ELSE IF DateGeq(Head(sorted).date, row.date)
         THEN <<Head(sorted)>> \o InsertByDateDesc(Tail(sorted), row)
         ELSE <<row>> \o sorted

RECURSIVE OrderByDateDesc(_)
\* .order_by(models.TimeEntry.date.desc()); rows of one date keep id order
OrderByDateDesc(rows) ==
    IF rows = <<>> THEN <<>>
    ELSE InsertByDateDesc(OrderByDateDesc(SubSeq(rows, 1, Len(rows) - 1)),
                          rows[Len(rows)])

RECURSIVE InsertByTotalDesc(_, _)
InsertByTotalDesc(sorted, item) ==
    IF sorted = <<>> THEN <<item>>
    ELSE IF Head(sorted)[2] >= item[2]
         THEN <<Head(sorted)>> \o InsertByTotalDesc(Tail(sorted), item)
         ELSE <<item>> \o sorted

RECURSIVE SortedByTotalDesc(_)
\* sorted(items, key=lambda x: x[1], reverse=True): Python's sort is stable,
\* and with reverse=True equal keys keep the order they came in
SortedByTotalDesc(items) ==
    IF items = <<>> THEN <<>>
    ELSE InsertByTotalDesc(SortedByTotalDesc(SubSeq(items, 1, Len(items) - 1)),
                           items[Len(items)])

----------------------------------------------------------------------------
(* GET /dashboard *)

active_projects_query_AnyStatus(user) == ScopeProjects(projects, user)

active_projects_query(user) ==
    ScopeProjects(SelectSeq(projects, LAMBDA p : p.status = "active"), user)

time_query(user) == ScopeByProject(JoinProject(timeEntries), user)

month_hours(user) ==
    SelectSeq(time_query(user),
              LAMBDA t : DateGeq(t.date, StartOfMonth(Today)))

pending_inv_query(user) ==
    ScopeByProject(
        SelectSeq(JoinProject(invoices),
                  LAMBDA i : i.status \in {"draft", "sent"}),
        user)

paid_inv_query(user) ==
    ScopeByProject(
        SelectSeq(JoinProject(invoices), LAMBDA i : i.status = "paid"), user)

dashboard_context(user) ==
    [active_projects |-> Len(active_projects_query(user)),
     total_hours |-> SumSeq(Hours(month_hours(user))),
     pending_invoices |-> Len(pending_inv_query(user)),
     total_earned |-> SumSeq(Amounts(paid_inv_query(user)))]

----------------------------------------------------------------------------
(* GET /time-logs *)

time_logs_query(user) ==
    ScopeByProject(OrderByDateDesc(JoinProject(timeEntries)), user)

all_visible_entries_Unscoped(user) == OrderByDateDesc(JoinProject(timeEntries))

\* the second query.all() of the handler
all_visible_entries(user) == time_logs_query(user)

RECURSIVE ProjectTotalsLoop(_, _)
\* for entry in all_visible_entries: project_totals[pid] += entry.hours
ProjectTotalsLoop(project_totals, rows) ==
    IF rows = <<>> THEN project_totals
    ELSE ProjectTotalsLoop(
             DictAdd(project_totals, ProjectOf(Head(rows)).id, Head(rows).hours),
             Tail(rows))

projects_for_form(user) ==
    IF user.role \in {"admin", "freelancer"}
    THEN SelectSeq(projects, LAMBDA p : p.status = "active")
    ELSE <<>>

time_log_context(user) ==
    [entries |-> time_logs_query(user),
     projects |-> projects_for_form(user),
     project_totals |-> ProjectTotalsLoop(EmptyDict, all_visible_entries(user))]

----------------------------------------------------------------------------
(* GET /reports *)

RECURSIVE HoursDataLoop(_, _)
\* hours_data[entry.project.name] = hours_data.get(pname, 0) + entry.hours
HoursDataLoop(hours_data, rows) ==
    IF rows = <<>> THEN hours_data
    ELSE HoursDataLoop(
             DictAdd(hours_data, ProjectOf(Head(rows)).name, Head(rows).hours),
             Tail(rows))

RECURSIVE MonthlyDataLoop(_, _)
\* monthly_data[month_key] = monthly_data.get(month_key, 0) + inv.amount
MonthlyDataLoop(monthly_data, rows) ==
    IF rows = <<>> THEN monthly_data
    ELSE MonthlyDataLoop(
             DictAdd(monthly_data, MonthKey(Head(rows).issued_date),
                     Head(rows).amount),
             Tail(rows))

\* sum(i.amount for p in client.projects for i in p.invoices
\*     if i.status == "paid")
ClientPaidTotal(client) ==
    SumSeq(Amounts(SelectSeq(JoinProject(invoices),
        LAMBDA i : i.status = "paid" /\ ProjectOf(i).client_id = client.id)))

RECURSIVE TopClientsLoop(_, _)
\* for client in clients: if total > 0: top_clients[client.name] = total;
\* the items of the dict come in the order the names were first set
TopClientsLoop(items, rows) ==
    IF rows = <<>> THEN items
    ELSE TopClientsLoop(
             IF ClientPaidTotal(Head(rows)) > 0
             THEN Append(items,
                         <<Head(rows).name, ClientPaidTotal(Head(rows))>>)
             ELSE items,
             Tail(rows))

top_clients(user) ==
    IF user.role \in {"admin", "freelancer"}
    THEN TopClientsLoop(<<>>, clients)
    ELSE <<>>

reports_context(user) ==
    [hours_data |-> HoursDataLoop(EmptyDict, time_query(user)),
     monthly_data |-> MonthlyDataLoop(EmptyDict, paid_inv_query(user)),
     top_clients |-> SortedByTotalDesc(top_clients(user))]

----------------------------------------------------------------------------
(* Responses and handlers *)

Response(op, status, body) == [op |-> op, status |-> status, body |-> body]

NoBody == [none |-> TRUE]

\* RedirectResponse(url="/login") of a read handler without a user
RedirectToLogin(op) == Response(op, 307, NoBody)

\* POST /login
login(username, password) ==
    LET user == First(SelectSeq(users, LAMBDA u : u.username = username))
    IN  IF user = Anonymous \/ ~verify_password(password, user.hashed_password)
        THEN /\ resp' = Response("login", 200, [error |-> "Invalid credentials"])
             /\ UNCHANGED <<tables, timeEntries, session>>
        ELSE /\ session' = user.id
             /\ resp' = Response("login", 303, NoBody)
             /\ UNCHANGED <<tables, timeEntries>>

\* GET /logout: request.session.clear()
logout ==
    /\ session' = NoUser
    /\ resp' = Response("logout", 307, NoBody)
    /\ UNCHANGED <<tables, timeEntries>>

dashboard ==
    LET user == get_current_user
    IN  /\ resp' = IF user = Anonymous THEN RedirectToLogin("dashboard")
                   ELSE Response("dashboard", 200, dashboard_context(user))
        /\ UNCHANGED <<tables, timeEntries, session>>

time_logs ==
    LET user == get_current_user
    IN  /\ resp' = IF user = Anonymous THEN RedirectToLogin("time_logs")
                   ELSE Response("time_logs", 200, time_log_context(user))
        /\ UNCHANGED <<tables, timeEntries, session>>

reports ==
    LET user == get_current_user
    IN  /\ resp' = IF user = Anonymous THEN RedirectToLogin("reports")
                   ELSE Response("reports", 200, reports_context(user))
        /\ UNCHANGED <<tables, timeEntries, session>>

CannotAddTime_AnyRole(user) == user = Anonymous

CannotAddTime_AnySession(user) == user.role = "client"

\* if not user or user.role == "client"
CannotAddTime(user) == user = Anonymous \/ user.role = "client"

\* POST /time-logs.  strptime raises ValueError on a string that is no date:
\* the request ends in a 500 before db.add.  db.add and db.commit insert the
\* row as it is: the handler checks neither hours nor project_id.
add_time_log(project_id, hours, date, description) ==
    LET user == get_current_user
    IN  IF CannotAddTime(user)
        THEN /\ resp' = Response("add_time_log", 403, NoBody)
             /\ UNCHANGED <<tables, timeEntries, session>>
        ELSE IF ParseDate(date) = ParseError
        THEN /\ resp' = Response("add_time_log", 500, NoBody)
             /\ UNCHANGED <<tables, timeEntries, session>>
        ELSE /\ Len(timeEntries) < SeedEntryCount + MaxPosts
             /\ timeEntries' = Append(timeEntries,
                    TimeEntry(Len(timeEntries) + 1, project_id, ParseDate(date),
                              hours, description))
             /\ resp' = Response("add_time_log", 303, NoBody)
             /\ UNCHANGED <<tables, session>>

----------------------------------------------------------------------------
(* The seeded database: startup_event *)

SeedClients ==
    <<Client(1, "TechCorp"), Client(2, "DesignStudio"), Client(3, "StartupInc")>>

SeedUsers ==
    <<User(1, "admin", "password", "admin", NoClient),
      User(2, "freelancer", "password", "freelancer", NoClient),
      User(3, "client", "password", "client", SeedClients[1].id)>>

SeedProjects ==
    <<Project(1, "Website Redesign", "active", SeedClients[1].id),
      Project(2, "Mobile App MVP", "active", SeedClients[3].id),
      Project(3, "Logo Design", "completed", SeedClients[2].id),
      Project(4, "SEO Audit", "on-hold", SeedClients[1].id),
      Project(5, "Maintenance", "active", SeedClients[2].id)>>

SeedInvoices ==
    <<Invoice(1, 3, 800, Date(2026, 10, 21), "paid"),
      Invoice(2, 1, 2500, Date(2026, 10, 28), "sent"),
      Invoice(3, 2, 4000, Today, "draft"),
      Invoice(4, 4, 1500, Date(2026, 10, 13), "paid")>>

\* random.choice(projects), today - randint(0, 30) days, randint(1, 8) hours
SeedEntryChoices ==
    {TimeEntry(0, p, d, h, "Meeting") :
        p \in 1..Len(SeedProjects), d \in {Today, LastMonth}, h \in 1..MaxHours}

\* rows with their autoincrement ids
WithIds(rows) == [i \in DOMAIN rows |-> [rows[i] EXCEPT !.id = i]]

NoResponse == Response("", 0, NoBody)

Init ==
    /\ clients = SeedClients
    /\ users = SeedUsers
    /\ projects = SeedProjects
    /\ invoices = SeedInvoices
    /\ timeEntries \in {WithIds(e) : e \in [1..SeedEntryCount -> SeedEntryChoices]}
    /\ session = NoUser
    /\ resp = NoResponse

(* What the forms send *)

Usernames == {"admin", "freelancer", "client", "nobody"}
Passwords == {"password", "wrong"}
\* a project of the client user's client, one of another client, no project
PostProjectIds == {1, 3, Len(SeedProjects) + 1}
PostHours == 0..MaxHours
PostDates == {"2026-11-02", "2026-10-15", "tomorrow"}
PostDescriptions == {"Meeting"}

Next ==
    \/ \E u \in Usernames, p \in Passwords : login(u, p)
    \/ logout
    \/ dashboard
    \/ time_logs
    \/ reports
    \/ \E p \in PostProjectIds, h \in PostHours, d \in PostDates,
          t \in PostDescriptions : add_time_log(p, h, d, t)

Spec == Init /\ [][Next]_vars

----------------------------------------------------------------------------
(* Any database the schema of models.py allows, within the bounds, read by *)
(* any signed-in user: the three read handlers as functions of the tables  *)

ClientRefs == NoClient..MaxClientRef

\* the client user linked to TechCorp, as seeded, or to no client
\* (users.client_id is nullable)
DrawnUsers ==
    {[SeedUsers EXCEPT ![3].client_id = c] : c \in {NoClient, SeedClients[1].id}}

DrawnProjectName(i) == SeedProjects[((i - 1) % Len(SeedProjects)) + 1].name

\* "completed" and "on-hold" are the same to every handler
DrawnProjects ==
    {[i \in 1..NumProjects |-> Project(i, DrawnProjectName(i), f[i][1], f[i][2])] :
        f \in [1..NumProjects -> {"active", "completed"} \X ClientRefs]}

InvoiceChoices ==
    {<<1, Today, "sent">>, <<1, Today, "paid">>, <<2, LastMonth, "paid">>}

\* invoice i bills project i, around the projects
DrawnInvoices ==
    {[i \in 1..NumInvoices |->
         Invoice(i, ((i - 1) % NumProjects) + 1, f[i][1], f[i][2], f[i][3])] :
        f \in [1..NumInvoices -> InvoiceChoices]}

\* entry i is of i hours, the odd ones of last month and the even ones of
\* today; its project_id may name no project (add_time_log does not check it)
DrawnEntries ==
    UNION {{[i \in 1..n |->
                TimeEntry(i, f[i], IF i % 2 = 1 THEN LastMonth ELSE Today, i,
                          "Meeting")] :
               f \in [1..n -> 1..(NumProjects + 1)]} : n \in 0..MaxEntries}

\* either the invoices or the time entries are drawn, the other table empty
InitViews ==
    /\ clients = SeedClients
    /\ users \in DrawnUsers
    /\ projects \in DrawnProjects
    /\ \/ invoices \in DrawnInvoices /\ timeEntries = <<>>
       \/ invoices = <<>> /\ timeEntries \in DrawnEntries
    /\ session \in {users[i].id : i \in DOMAIN users}
    /\ resp = NoResponse

NextViews ==
    \/ dashboard
    \/ time_logs
    \/ reports

SpecViews == InitViews /\ [][NextViews]_vars

----------------------------------------------------------------------------
(* What the claims are stated with: the records of a user's client, taken  *)
(* as sets from the tables                                                 *)

ProjectRows == Range(projects)

\* the projects whose client_id is the user's client_id
OwnProjects(user) == {p \in ProjectRows : p.client_id = user.client_id}

RowsOf(rows, projs) ==
    {r \in Range(rows) : \E p \in projs : p.id = r.project_id}

SumHours(rows) == SumSet(rows, [r \in rows |-> r.hours])

SumAmounts(rows) == SumSet(rows, [r \in rows |-> r.amount])

DictGet(d, k) == IF k \in DOMAIN d THEN d[k] ELSE 0

Served(op) == resp.op = op /\ resp.status = 200

----------------------------------------------------------------------------
(* C1 *)

\* C1: for a client-role user, every figure of the dashboard, every entry and
\* running total of the time log and every group of the report is made of
\* the records of projects whose client_id equals the user's client_id, and
\* of no other record.
C1_ClientSeesOnlyOwnRecords ==
    LET user == get_current_user
        own == OwnProjects(user)
        ownEntries == RowsOf(timeEntries, own)
        ownInvoices == RowsOf(invoices, own)
        ownPaid == {i \in ownInvoices : i.status = "paid"}
        b == resp.body
    IN  user.role = "client" =>
          /\ Served("dashboard") =>
               /\ b.active_projects
                    = Cardinality({p \in own : p.status = "active"})
               /\ b.total_hours
                    = SumHours({t \in ownEntries :
                                   DateGeq(t.date, StartOfMonth(Today))})
               /\ b.pending_invoices
                    = Cardinality({i \in ownInvoices :
                                      i.status \in {"draft", "sent"}})
               /\ b.total_earned = SumAmounts(ownPaid)
          /\ Served("time_logs") =>
               /\ Range(b.entries) \subseteq ownEntries
               /\ \A pid \in DOMAIN b.project_totals :
                    /\ pid \in {p.id : p \in own}
                    /\ b.project_totals[pid]
                         = SumHours({t \in ownEntries : t.project_id = pid})
          /\ Served("reports") =>
               /\ \A name \in DOMAIN b.hours_data :
                    b.hours_data[name]
                      = SumHours(RowsOf(timeEntries,
                                        {p \in own : p.name = name}))
               /\ \A month \in DOMAIN b.monthly_data :
                    b.monthly_data[month]
                      = SumAmounts({i \in ownPaid :
                                       MonthKey(i.issued_date) = month})

\* a linked client reads a time log that lists an entry of theirs while the
\* table also holds an entry of a project of somebody else
C1_Witness ==
    LET user == get_current_user
    IN  /\ user.role = "client"
        /\ user.client_id # NoClient
        /\ Served("time_logs")
        /\ resp.body.entries # <<>>
        /\ \E p \in ProjectRows :
              /\ p.client_id \notin {NoClient, user.client_id}
              /\ RowsOf(timeEntries, {p}) # {}

----------------------------------------------------------------------------
(* C2 *)

\* C2: for a client-role user with no client_id every scoped view is empty:
\* all counts and sums are zero, all listings and groupings are empty,
\* whatever the tables hold.
C2_UnlinkedClientSeesNothing ==
    LET user == get_current_user
        b == resp.body
    IN  (user.role = "client" /\ user.client_id = NoClient) =>
          /\ Served("dashboard") =>
               /\ b.active_projects = 0
               /\ b.total_hours = 0
               /\ b.pending_invoices = 0
               /\ b.total_earned = 0
          /\ Served("time_logs") =>
               /\ Len(b.entries) = 0
               /\ DOMAIN b.project_totals = {}
          /\ Served("reports") =>
               /\ DOMAIN b.hours_data = {}
               /\ DOMAIN b.monthly_data = {}
               /\ Len(b.top_clients) = 0

----------------------------------------------------------------------------
(* C6 *)

\* Python's string order on the client names of the seed
NameRank(n) ==
    CASE n = "DesignStudio" -> 1
      [] n = "StartupInc" -> 2
      [] n = "TechCorp" -> 3
      [] OTHER -> 4

\* the paid invoices of the projects of a client
PaidInvoicesOf(client) ==
    {i \in RowsOf(invoices, {p \in ProjectRows : p.client_id = client.id}) :
        i.status = "paid"}

\* C6: top_clients is empty for a client-role caller; for an admin or a
\* freelancer it holds exactly the clients whose paid invoices sum to more
\* than zero, by that total descending, equal totals by name ascending.
C6_TopClientsRankedTiesByName ==
    LET user == get_current_user
        top == resp.body.top_clients
    IN  Served("reports") =>
          /\ user.role = "client" => top = <<>>
          /\ user.role \in {"admin", "freelancer"} =>
               /\ Range(top)
                    = {<<c.name, SumAmounts(PaidInvoicesOf(c))>> :
                          c \in {c \in Range(clients) :
                                    SumAmounts(PaidInvoicesOf(c)) > 0}}
               /\ \A i, j \in DOMAIN top :
                    i < j =>
                      \/ top[i][2] > top[j][2]
                      \/ /\ top[i][2] = top[j][2]
                         /\ NameRank(top[i][1]) < NameRank(top[j][1])

----------------------------------------------------------------------------
(* C7 *)

\* C7: in the time-log view the running totals sum to the hours of the
\* listed entries, and the total of a project is the sum of the hours of
\* exactly the listed entries of that project.
C7_TotalsMatchListing ==
    LET b == resp.body
    IN  Served("time_logs") =>
          /\ SumSet(DOMAIN b.project_totals, b.project_totals)
               = SumSeq(Hours(b.entries))
          /\ DOMAIN b.project_totals
               = {b.entries[i].project_id : i \in DOMAIN b.entries}
          /\ \A pid \in DOMAIN b.project_totals :
               b.project_totals[pid]
                 = SumSeq(Hours(SelectSeq(b.entries,
                                          LAMBDA t : t.project_id = pid)))

\* a time log read by a linked client that lists an entry while the table
\* holds an entry the client may not see
C7_Witness ==
    /\ Served("time_logs")
    /\ get_current_user.role = "client"
    /\ get_current_user.client_id # NoClient
    /\ Len(resp.body.entries) >= 1
    /\ Len(resp.body.entries) < Len(JoinProject(timeEntries))

----------------------------------------------------------------------------
(* C8 *)

\* C8: the dashboard's count of active projects is, for an admin or a
\* freelancer, the number of all projects with status "active" whoever the
\* client; for a client-role caller, the number of active projects of the
\* caller's client.
C8_ActiveProjectCount ==
    LET user == get_current_user
        active == {p \in ProjectRows : p.status = "active"}
    IN  Served("dashboard") =>
          /\ user.role \in {"admin", "freelancer"} =>
               resp.body.active_projects = Cardinality(active)
          /\ user.role = "client" =>
               resp.body.active_projects
                 = Cardinality(active \cap OwnProjects(user))

\* a freelancer's dashboard over projects of two clients, one project active
\* and one not
C8_Witness ==
    /\ Served("dashboard")
    /\ get_current_user.role = "freelancer"
    /\ resp.body.active_projects = 1
    /\ \E p, q \in ProjectRows :
          /\ p.client_id # q.client_id
          /\ p.status = "active"
          /\ q.status # "active"

----------------------------------------------------------------------------
(* The claims about POST /time-logs and the session, on the seeded database *)

\* the step is a POST /time-logs
Posted == resp'.op = "add_time_log"

\* the step appends to time_entries
Appended == Len(timeEntries') > Len(timeEntries)

NewEntry == timeEntries'[Len(timeEntries')]

\* C3: a POST /time-logs of a client-role user is answered 403 and leaves
\* the time entries as they were, whatever the form holds.
C3_ClientPostRefused ==
    [][(Posted /\ get_current_user.role = "client") =>
          (resp'.status = 403 /\ timeEntries' = timeEntries)]_vars

\* the client user has posted a form and got a 403
C3_Witness ==
    /\ get_current_user.role = "client"
    /\ resp.op = "add_time_log"
    /\ resp.status = 403

\* C4: a POST /time-logs with hours <= 0 is refused, so every time entry has
\* hours > 0.
C4_EveryTimeEntryHasPositiveHours ==
    \A i \in DOMAIN timeEntries : timeEntries[i].hours > 0

\* C5: a POST /time-logs with a project_id of no project is refused, so the
\* project_id of every time entry names a project.
C5_EveryTimeEntryHasItsProject ==
    \A i \in DOMAIN timeEntries : timeEntries[i].project_id \in ProjectIds

\* C9: a POST /time-logs answered 303 appends exactly one entry and changes
\* nothing else; the poster's time log then lists the new entry, the running
\* total of its project is larger by its hours, and the running totals of
\* the other projects are as before.
C9_AppendedEntryIsListed ==
    [][(Posted /\ resp'.status = 303) =>
          LET before == time_log_context(get_current_user)
              after == time_log_context(get_current_user)'
          IN  /\ timeEntries' = Append(timeEntries, NewEntry)
              /\ UNCHANGED <<tables, session>>
              /\ NewEntry \in Range(after.entries)
              /\ DictGet(after.project_totals, NewEntry.project_id)
                   = DictGet(before.project_totals, NewEntry.project_id)
                       + NewEntry.hours
              /\ \A pid \in (DOMAIN before.project_totals
                               \cup DOMAIN after.project_totals)
                              \ {NewEntry.project_id} :
                   DictGet(after.project_totals, pid)
                     = DictGet(before.project_totals, pid)]_vars

\* C10: the time entries grow only in a step whose session holds the id of a
\* user with role admin or freelancer; a POST /time-logs without a session
\* user appends nothing; a failed login leaves the session as it was.
C10_OnlySignedInStaffAppend ==
    [][/\ Appended =>
            /\ session # NoUser
            /\ \E i \in DOMAIN users :
                  /\ users[i].id = session
                  /\ users[i].role \in {"admin", "freelancer"}
       /\ (Posted /\ session = NoUser) => timeEntries' = timeEntries
       /\ (resp'.op = "login" /\ resp'.status # 303) => session' = session]_vars

\* a signed-in user has appended an entry, and then a login failed under the
\* same session
C10_Witness ==
    /\ Len(timeEntries) > SeedEntryCount
    /\ session # NoUser
    /\ resp.op = "login"
    /\ resp.status = 200

====
